---- MODULE Spec2Model ----
(***************************************************************************)
(* Model of the Sumsub KYC integration layer (OkayJosh/compliance).        *)
(*                                                                         *)
(* State: the ApplicantModel table, the provider's applicant table, and    *)
(* one SumsubApplicant service instance per request worker.  A request is  *)
(* split at its blocking calls (database call, provider call), so that     *)
(* concurrent requests interleave exactly where the code can be preempted. *)
(* Spec serves requests concurrently, SeqSpec one after the other, and     *)
(* SignSpec runs the adapter's request signer on its own.                  *)
(***************************************************************************)
EXTENDS Integers, Sequences, FiniteSets, TLC

\* ---------------------------------------------------------------- bounds
NumWorkers == 2
NumPids == 2
MaxNow == 11

Workers == 1 .. NumWorkers
Pids == 1 .. NumPids

\* Python None for the provider applicant id, a uuid, a status.
NoPid == 0
NoUuid == 0
NoStatus == "None"

\* ApplicantModel.uuid's default: uuid.uuid4() is evaluated once, when the
\* worker process imports the module, so every row a process inserts gets
\* the same primary key, and two processes draw different ones.
default_uuid(w) == w

Uuids == { default_uuid(w) : w \in Workers }

\* reviewStatus values the provider may answer with (opaque strings).
Statuses == {"GREEN", "RED"}

\* Validated ApplicantSerializer inputs: the six personal fields.
FirstNames == {"Ada", "Alan"}

Persons ==
  { [first_name |-> f, last_name |-> "Lovelace", dob |-> "1815-12-10",
     nationality |-> "GBR", email |-> "ada@example.com",
     phone |-> "+441234567890"] : f \in FirstNames }

NoPerson ==
  [first_name |-> "", last_name |-> "", dob |-> "", nationality |-> "",
   email |-> "", phone |-> ""]

\* ------------------------------------------------------------ data model

\* domain.models.Applicant: the six fields plus applicant_id, uuid, status.
Applicant(person, aid, uuid, vstatus) ==
  [first_name |-> person.first_name, last_name |-> person.last_name,
   dob |-> person.dob, nationality |-> person.nationality,
   email |-> person.email, phone |-> person.phone,
   applicant_id |-> aid, uuid |-> uuid, verification_status |-> vstatus]

\* sumsub.models.ApplicantModel: one row of the table (uuid is the key).
ApplicantModel(uuid, person, aid, vstatus) ==
  [uuid |-> uuid,
   first_name |-> person.first_name, last_name |-> person.last_name,
   dob |-> person.dob, nationality |-> person.nationality,
   email |-> person.email, phone |-> person.phone,
   applicant_id |-> aid, verification_status |-> vstatus]

\* No instance (self.applicant_db = None, self.applicant = None).
NoRow == ApplicantModel(NoUuid, NoPerson, NoPid, NoStatus)
NoApplicant == Applicant(NoPerson, NoPid, NoUuid, NoStatus)

PersonOf(r) ==
  [first_name |-> r.first_name, last_name |-> r.last_name, dob |-> r.dob,
   nationality |-> r.nationality, email |-> r.email, phone |-> r.phone]

\* The HTTP response the view returns (an uncaught exception is a 500),
\* kept with the applicant id the request was about.
Response(op, code, exc, aid, vstatus) ==
  [op |-> op, code |-> code, exc |-> exc, applicant_id |-> aid,
   verification_status |-> vstatus]

NoResponse == Response("none", 0, "none", NoPid, NoStatus)

VARIABLES
  schema,        \* which definition of the table the database was built from
  table,         \* ApplicantModel rows: uuid -> row, NoRow when absent
  provider,      \* the provider's applicants: id -> externalUserId
  pc,            \* per worker: where its request stands
  applicant,     \* per worker: self.applicant
  applicant_db,  \* per worker: self.applicant_db
  created,       \* per worker: get_or_create's second result
  arg_id,        \* per worker: the applicant id of a document/status request
  status,        \* per worker: the local `status` of get_verification_status
  calls,         \* per worker: outbound provider calls of the request
  resp,          \* per worker: the response of its last request
  clock,         \* time.time(), in whole seconds
  secret_key,    \* SumsubAPIAdapter.secret_key
  request,       \* the requests.Request handed to _get_headers
  prepared,      \* the signed PreparedRequest _get_headers returned
  sent           \* the PreparedRequest handed to session.send

workflow_vars ==
  << schema, table, provider, pc, applicant, applicant_db, created,
     arg_id, status, calls, resp >>

signer_vars == << clock, secret_key, request, prepared, sent >>

vars == << workflow_vars, signer_vars >>

locals == << applicant, applicant_db, created, arg_id, status >>

\* ------------------------------------------------ SumsubAPIAdapter signing

\* Text and bytes are sequences of one-character strings.
Digits == << "0", "1", "2", "3", "4", "5", "6", "7", "8", "9" >>

\* str(n) of a non-negative int: its decimal digits, most significant first.
RECURSIVE str(_)
str(n) ==
  IF n < 10 THEN << Digits[n + 1] >>
            ELSE str(n \div 10) \o << Digits[(n % 10) + 1] >>

\* str.upper() on one character: a lowercase letter becomes its capital,
\* anything else stays.
UpperChar(c) ==
  CASE c = "g" -> "G" [] c = "e" -> "E" [] c = "t" -> "T"
    [] c = "p" -> "P" [] c = "o" -> "O" [] c = "s" -> "S"
    [] OTHER -> c

\* str.upper()
upper(t) == [i \in 1 .. Len(t) |-> UpperChar(t[i])]

\* PreparedRequest.path_url: the path ("/" when empty), then "?" and the
\* query when there is one.
path_url(req) ==
  (IF req.path = << >> THEN << "/" >> ELSE req.path)
    \o (IF req.query = << >> THEN << >> ELSE << "?" >> \o req.query)

\* The bytes _get_headers signs for the body: b'' for None, the UTF-8
\* encoding of a str (ASCII here, one byte per character), bytes as they are.
body_bytes(req) ==
  IF req.body.kind = "none" THEN << >> ELSE req.body.data

\* data_to_sign without the body: what a signer for body-less requests
\* would sign.
data_to_sign_WithoutBody(req, now) ==
  str(now) \o upper(req.method) \o path_url(req)

\* data_to_sign with the method as the caller wrote it, not in capitals.
data_to_sign_MethodAsGiven(req, now) ==
  str(now) \o req.method \o path_url(req) \o body_bytes(req)

\* data_to_sign of _get_headers.
data_to_sign(req, now) ==
  str(now) \o upper(req.method) \o path_url(req) \o body_bytes(req)

\* hmac.new(key, msg, digestmod=hashlib.sha256).hexdigest(): the digest is
\* kept symbolic, as the term of its key and message.
hmac_sha256_hexdigest(key, msg) ==
  [digestmod |-> "sha256", encoding |-> "hex-lowercase", key |-> key,
   msg |-> msg]

API_TOKEN == << "t", "o", "k" >>

\* _get_headers that reads the clock a second time for the header, a second
\* after the reading it signed.
get_headers_ClockReadTwice(req, now, secret) ==
  [method |-> upper(req.method),
   path_url |-> path_url(req),
   body |-> req.body,
   X_App_Token |-> API_TOKEN,
   X_App_Access_Ts |-> str(now + 1),
   X_App_Access_Sig |-> hmac_sha256_hexdigest(secret, data_to_sign(req, now))]

\* SumsubAPIAdapter._get_headers: prepare the request, read the clock once,
\* sign, set the three headers.
get_headers(req, now, secret) ==
  [method |-> upper(req.method),
   path_url |-> path_url(req),
   body |-> req.body,
   X_App_Token |-> API_TOKEN,
   X_App_Access_Ts |-> str(now),
   X_App_Access_Sig |-> hmac_sha256_hexdigest(secret, data_to_sign(req, now))]

\* Inputs of the signer.
Methods ==
  { << "G", "E", "T" >>, << "P", "O", "S", "T" >>, << "p", "o", "s", "t" >> }

Paths == { << >>, << "/", "a" >>, << "/", "a", "/", "1" >> }

Queries == { << >>, << "l", "=", "b" >> }

Bodies ==
  { [kind |-> "none", data |-> << >>],
    [kind |-> "str", data |-> << "{", "}" >>],
    [kind |-> "bytes", data |-> << "1" >>] }

Secrets == { << "k" >>, << "k", "2" >> }

Requests ==
  { [method |-> m, path |-> p, query |-> q, body |-> b] :
      m \in Methods, p \in Paths, q \in Queries, b \in Bodies }

NoRequest ==
  [method |-> << >>, path |-> << >>, query |-> << >>,
   body |-> [kind |-> "none", data |-> << >>]]

NoPrepared ==
  [method |-> << >>, path_url |-> << >>,
   body |-> [kind |-> "none", data |-> << >>],
   X_App_Token |-> << >>, X_App_Access_Ts |-> << >>,
   X_App_Access_Sig |-> hmac_sha256_hexdigest(<< >>, << >>)]

\* ------------------------------------------------- ApplicantRepository

\* Rows of tbl whose six personal fields equal person's.
Matching(tbl, person) ==
  { u \in Uuids : tbl[u] # NoRow /\ PersonOf(tbl[u]) = person }

\* The table is built either by the one migration of the repository, where
\* applicant_id and verification_status are NOT NULL, or from the model as
\* declared, where both are nullable.
Schemas == {"0001_initial", "models"}

\* objects.get that finds nothing, whatever is stored.
objects_get_DoesNotExist(tbl, person) ==
  [obj |-> NoRow, exc |-> "DoesNotExist"]

\* The SELECT of get_or_create, self.get(**six fields): the row when exactly
\* one matches.
objects_get(tbl, person) ==
  LET m == Matching(tbl, person) IN
    IF Cardinality(m) = 1
      THEN [obj |-> tbl[CHOOSE u \in m : TRUE], exc |-> "none"]
    ELSE IF Cardinality(m) > 1
      THEN [obj |-> NoRow, exc |-> "MultipleObjectsReturned"]
    ELSE [obj |-> NoRow, exc |-> "DoesNotExist"]

\* The INSERT of get_or_create, self.create(**six fields): the row goes in
\* under the process's default primary key with applicant_id and
\* verification_status NULL; IntegrityError when that key is taken or when
\* the columns are NOT NULL.
objects_create(tbl, person, dflt, sch) ==
  IF sch = "0001_initial" \/ tbl[dflt] # NoRow
    THEN [table |-> tbl, obj |-> NoRow, exc |-> "IntegrityError"]
    ELSE [table |-> [tbl EXCEPT ![dflt] =
                       ApplicantModel(dflt, person, NoPid, NoStatus)],
          obj |-> ApplicantModel(dflt, person, NoPid, NoStatus),
          exc |-> "none"]

\* Model.save() of a fetched instance: UPDATE of every column by primary
\* key; applicant_id is unique among the rows where it is not NULL.
model_save(tbl, obj) ==
  IF /\ obj.applicant_id # NoPid
     /\ \E u \in Uuids : /\ u # obj.uuid
                         /\ tbl[u] # NoRow
                         /\ tbl[u].applicant_id = obj.applicant_id
    THEN [table |-> tbl, exc |-> "IntegrityError"]
    ELSE [table |-> [tbl EXCEPT ![obj.uuid] = obj], exc |-> "none"]

\* update_applicant that keeps a status already stored: it writes only the
\* rows whose verification_status is still NULL.
update_applicant_KeepStored(tbl, aid, vstatus) ==
  [table |-> [u \in Uuids |->
                IF /\ tbl[u] # NoRow
                   /\ tbl[u].applicant_id = aid
                   /\ tbl[u].verification_status = NoStatus
                  THEN [tbl[u] EXCEPT !.verification_status = vstatus]
                  ELSE tbl[u]],
   rows |-> Cardinality({u \in Uuids :
                           /\ tbl[u] # NoRow
                           /\ tbl[u].applicant_id = aid
                           /\ tbl[u].verification_status = NoStatus})]

\* ApplicantRepository.update_applicant:
\* filter(applicant_id=...).update(verification_status=...), the number of
\* rows updated is returned and an empty match raises nothing.
update_applicant(tbl, aid, vstatus) ==
  [table |-> [u \in Uuids |->
                IF tbl[u] # NoRow /\ tbl[u].applicant_id = aid
                  THEN [tbl[u] EXCEPT !.verification_status = vstatus]
                  ELSE tbl[u]],
   rows |-> Cardinality({u \in Uuids :
                           tbl[u] # NoRow /\ tbl[u].applicant_id = aid})]

\* ------------------------------------------------------------ the views

Init ==
  /\ schema \in Schemas
  /\ table = [u \in Uuids |-> NoRow]
  /\ provider = [p \in Pids |-> NoUuid]
  /\ pc = [w \in Workers |-> "idle"]
  /\ applicant = [w \in Workers |-> NoApplicant]
  /\ applicant_db = [w \in Workers |-> NoRow]
  /\ created = [w \in Workers |-> FALSE]
  /\ arg_id = [w \in Workers |-> NoPid]
  /\ status = [w \in Workers |-> NoStatus]
  /\ calls = [w \in Workers |-> 0]
  /\ resp = [w \in Workers |-> NoResponse]
  /\ clock = 0
  /\ secret_key = << "k" >>
  /\ request = NoRequest
  /\ prepared = NoPrepared
  /\ sent = NoPrepared

\* The request of worker w ends with response r: the view instance and its
\* service are dropped.
Respond(w, r) ==
  /\ pc' = [pc EXCEPT ![w] = "done"]
  /\ resp' = [resp EXCEPT ![w] = r]
  /\ applicant' = [applicant EXCEPT ![w] = NoApplicant]
  /\ applicant_db' = [applicant_db EXCEPT ![w] = NoRow]
  /\ created' = [created EXCEPT ![w] = FALSE]
  /\ arg_id' = [arg_id EXCEPT ![w] = NoPid]
  /\ status' = [status EXCEPT ![w] = NoStatus]

\* Request payloads of the create view: the valid ones, and one the
\* serializer rejects (required fields blank).
Payloads == Persons \cup {NoPerson}

\* ApplicantSerializer.is_valid
is_valid(payload) == payload \in Persons

\* ApplicantCreateView.post up to the first statement of get_or_create: an
\* invalid payload is answered 400; otherwise self.applicant is built and
\* save_applicant runs the SELECT of get_or_create.
CreateSelect(w, payload) ==
  /\ pc[w] = "idle"
  /\ IF ~is_valid(payload)
       THEN Respond(w, Response("create", 400, "ValidationError", NoPid,
                                NoStatus))
       ELSE LET r == objects_get(table, payload) IN
         IF r.exc = "MultipleObjectsReturned"
           THEN Respond(w, Response("create", 500, r.exc, NoPid, NoStatus))
           ELSE /\ pc' = [pc EXCEPT ![w] =
                            IF r.exc = "none" THEN "create_call"
                                              ELSE "create_insert"]
                /\ applicant' = [applicant EXCEPT ![w] =
                                   Applicant(payload, NoPid, NoUuid, NoStatus)]
                /\ applicant_db' = [applicant_db EXCEPT ![w] = r.obj]
                /\ created' = [created EXCEPT ![w] = FALSE]
                /\ UNCHANGED << arg_id, status, resp >>
  /\ UNCHANGED << schema, table, provider, calls, signer_vars >>

\* The INSERT of get_or_create, after a SELECT that found nothing.
CreateInsert(w) ==
  /\ pc[w] = "create_insert"
  /\ LET r == objects_create(table, PersonOf(applicant[w]), default_uuid(w),
                             schema) IN
       /\ table' = r.table
       /\ IF r.exc = "none"
            THEN /\ pc' = [pc EXCEPT ![w] = "create_call"]
                 /\ applicant_db' = [applicant_db EXCEPT ![w] = r.obj]
                 /\ created' = [created EXCEPT ![w] = TRUE]
            ELSE /\ pc' = [pc EXCEPT ![w] = "create_retry"]
                 /\ UNCHANGED << applicant_db, created >>
  /\ UNCHANGED << schema, provider, applicant, arg_id, status, calls, resp,
                  signer_vars >>

\* CreateRetry that goes on to the provider when no row is found, with an
\* instance that was never stored.
CreateRetry_CallsProviderAnyway(w) ==
  /\ pc[w] = "create_retry"
  /\ LET r == objects_get(table, PersonOf(applicant[w])) IN
       /\ pc' = [pc EXCEPT ![w] = "create_call"]
       /\ applicant_db' = [applicant_db EXCEPT ![w] =
                             IF r.exc # "none"
                               THEN ApplicantModel(default_uuid(w),
                                      PersonOf(applicant[w]), NoPid, NoStatus)
                               ELSE r.obj]
       /\ UNCHANGED << applicant, created, arg_id, status, resp >>
  /\ UNCHANGED << schema, table, provider, calls, signer_vars >>

\* get_or_create after its INSERT raised IntegrityError: the SELECT again;
\* the row when there is one now, otherwise the IntegrityError is raised.
CreateRetry(w) ==
  /\ pc[w] = "create_retry"
  /\ LET r == objects_get(table, PersonOf(applicant[w])) IN
       IF r.exc = "none"
         THEN /\ pc' = [pc EXCEPT ![w] = "create_call"]
              /\ applicant_db' = [applicant_db EXCEPT ![w] = r.obj]
              /\ UNCHANGED << applicant, created, arg_id, status, resp >>
         ELSE Respond(w, Response("create", 500,
                                  IF r.exc = "DoesNotExist"
                                    THEN "IntegrityError" ELSE r.exc,
                                  NoPid, NoStatus))
  /\ UNCHANGED << schema, table, provider, calls, signer_vars >>

\* CreateCallOk on a service object shared by the whole process: the id goes
\* onto the entity of every request that is in flight.
CreateCallOk_SharedService(w, id) ==
  /\ pc[w] = "create_call"
  /\ provider[id] = NoUuid
  /\ provider' = [provider EXCEPT ![id] = applicant_db[w].uuid]
  /\ calls' = [calls EXCEPT ![w] = calls[w] + 1]
  /\ applicant' = [v \in Workers |->
                     IF applicant[v] = NoApplicant THEN applicant[v]
                     ELSE [applicant[v] EXCEPT !.applicant_id = id]]
  /\ applicant_db' = [v \in Workers |->
                        IF applicant_db[v] = NoRow THEN applicant_db[v]
                        ELSE [applicant_db[v] EXCEPT !.applicant_id = id]]
  /\ pc' = [pc EXCEPT ![w] = "create_save"]
  /\ UNCHANGED << table, created, arg_id, status, resp >>
  /\ UNCHANGED << schema, signer_vars >>

\* CreateCallOk without `self.applicant_db.applicant_id = applicant_id`: the
\* id reaches self.applicant only.
CreateCallOk_IdNotOnRow(w, id) ==
  /\ pc[w] = "create_call"
  /\ provider[id] = NoUuid
  /\ provider' = [provider EXCEPT ![id] = applicant_db[w].uuid]
  /\ calls' = [calls EXCEPT ![w] = calls[w] + 1]
  /\ applicant' = [applicant EXCEPT ![w].applicant_id = id]
  /\ pc' = [pc EXCEPT ![w] = "create_save"]
  /\ UNCHANGED << table, applicant_db, created, arg_id, status, resp >>
  /\ UNCHANGED << schema, signer_vars >>

\* SumsubAPIAdapter.create_applicant answered 2xx with a new id; the service
\* puts the id on self.applicant and self.applicant_db.
CreateCallOk(w, id) ==
  /\ pc[w] = "create_call"
  /\ provider[id] = NoUuid
  /\ provider' = [provider EXCEPT ![id] = applicant_db[w].uuid]
  /\ calls' = [calls EXCEPT ![w] = calls[w] + 1]
  /\ applicant' = [applicant EXCEPT ![w].applicant_id = id]
  /\ applicant_db' = [applicant_db EXCEPT ![w].applicant_id = id]
  /\ pc' = [pc EXCEPT ![w] = "create_save"]
  /\ UNCHANGED << table, created, arg_id, status, resp >>
  /\ UNCHANGED << schema, signer_vars >>

\* CreateCallFail that compensates: the row this request inserted is deleted
\* before the error is passed on.
CreateCallFail_Rollback(w) ==
  /\ pc[w] = "create_call"
  /\ calls' = [calls EXCEPT ![w] = calls[w] + 1]
  /\ table' = IF created[w]
                THEN [table EXCEPT ![applicant_db[w].uuid] = NoRow]
                ELSE table
  /\ Respond(w, Response("create", 500, "HTTPError", NoPid, NoStatus))
  /\ UNCHANGED << schema, provider, signer_vars >>

\* SumsubAPIAdapter.create_applicant raised (non-2xx, transport, timeout).
CreateCallFail(w) ==
  /\ pc[w] = "create_call"
  /\ calls' = [calls EXCEPT ![w] = calls[w] + 1]
  /\ Respond(w, Response("create", 500, "HTTPError", NoPid, NoStatus))
  /\ UNCHANGED << table, provider >>
  /\ UNCHANGED << schema, signer_vars >>

\* self.applicant_db.save(), then the view's 201 with self.applicant's id.
CreateLink(w) ==
  /\ pc[w] = "create_save"
  /\ LET r == model_save(table, applicant_db[w]) IN
       /\ table' = r.table
       /\ IF r.exc # "none"
            THEN Respond(w, Response("create", 500, r.exc, NoPid, NoStatus))
            ELSE Respond(w, Response("create", 201, "none",
                                     applicant[w].applicant_id, NoStatus))
  /\ UNCHANGED << provider, calls >>
  /\ UNCHANGED << schema, signer_vars >>

\* DocumentUploadView.post up to the provider call: a request without an
\* applicant_id is rejected by DocumentSerializer, any other builds the
\* Document and goes to the adapter.
DocumentStart(w, aid) ==
  /\ pc[w] = "idle"
  /\ UNCHANGED calls
  /\ IF aid = NoPid
       THEN Respond(w, Response("add_document", 400, "ValidationError",
                                NoPid, NoStatus))
       ELSE /\ pc' = [pc EXCEPT ![w] = "doc_call"]
            /\ arg_id' = [arg_id EXCEPT ![w] = aid]
            /\ UNCHANGED << resp, applicant, applicant_db, created, status >>
  /\ UNCHANGED << table, provider >>
  /\ UNCHANGED << schema, signer_vars >>

\* DocumentCallOk that notes the accepted upload on the applicant's record.
DocumentCallOk_MarksRecord(w) ==
  /\ pc[w] = "doc_call"
  /\ provider[arg_id[w]] # NoUuid
  /\ calls' = [calls EXCEPT ![w] = calls[w] + 1]
  /\ table' = update_applicant(table, arg_id[w], "DOCUMENT").table
  /\ Respond(w, Response("add_document", 200, "none", arg_id[w], NoStatus))
  /\ UNCHANGED provider
  /\ UNCHANGED << schema, signer_vars >>

\* SumsubAPIAdapter.add_document answered 2xx: the applicant is the
\* provider's.
DocumentCallOk(w) ==
  /\ pc[w] = "doc_call"
  /\ provider[arg_id[w]] # NoUuid
  /\ calls' = [calls EXCEPT ![w] = calls[w] + 1]
  /\ Respond(w, Response("add_document", 200, "none", arg_id[w], NoStatus))
  /\ UNCHANGED << table, provider >>
  /\ UNCHANGED << schema, signer_vars >>

\* SumsubAPIAdapter.add_document raised.
DocumentCallFail(w) ==
  /\ pc[w] = "doc_call"
  /\ calls' = [calls EXCEPT ![w] = calls[w] + 1]
  /\ Respond(w, Response("add_document", 500, "HTTPError", arg_id[w],
                         NoStatus))
  /\ UNCHANGED << table, provider >>
  /\ UNCHANGED << schema, signer_vars >>

\* VerificationStatusView.get up to the provider call.
StatusStart(w, aid) ==
  /\ pc[w] = "idle"
  /\ pc' = [pc EXCEPT ![w] = "status_call"]
  /\ arg_id' = [arg_id EXCEPT ![w] = aid]
  /\ UNCHANGED << table, provider, applicant, applicant_db, created, status,
                  calls, resp >>
  /\ UNCHANGED << schema, signer_vars >>

\* SumsubAPIAdapter.get_verification_status answered 2xx with reviewStatus.
StatusCallOk(w, s) ==
  /\ pc[w] = "status_call"
  /\ provider[arg_id[w]] # NoUuid
  /\ calls' = [calls EXCEPT ![w] = calls[w] + 1]
  /\ status' = [status EXCEPT ![w] = s]
  /\ pc' = [pc EXCEPT ![w] = "status_update"]
  /\ UNCHANGED << table, provider, applicant, applicant_db,
                  created, arg_id, resp >>
  /\ UNCHANGED << schema, signer_vars >>

\* StatusCallFail that swallows the provider's error and answers 200 with no
\* status.
StatusCallFail_Swallowed(w) ==
  /\ pc[w] = "status_call"
  /\ calls' = [calls EXCEPT ![w] = calls[w] + 1]
  /\ Respond(w, Response("status", 200, "none", arg_id[w], NoStatus))
  /\ UNCHANGED << table, provider >>
  /\ UNCHANGED << schema, signer_vars >>

\* StatusCallFail that records the failed refresh by clearing the stored
\* status before it passes the error on.
StatusCallFail_ClearsStatus(w) ==
  /\ pc[w] = "status_call"
  /\ calls' = [calls EXCEPT ![w] = calls[w] + 1]
  /\ table' = update_applicant(table, arg_id[w], NoStatus).table
  /\ Respond(w, Response("status", 500, "HTTPError", arg_id[w], NoStatus))
  /\ UNCHANGED provider
  /\ UNCHANGED << schema, signer_vars >>

\* SumsubAPIAdapter.get_verification_status raised.
StatusCallFail(w) ==
  /\ pc[w] = "status_call"
  /\ calls' = [calls EXCEPT ![w] = calls[w] + 1]
  /\ Respond(w, Response("status", 500, "HTTPError", arg_id[w], NoStatus))
  /\ UNCHANGED << table, provider >>
  /\ UNCHANGED << schema, signer_vars >>

\* StatusUpdate that writes only while the record has no status yet: the
\* first refresh to reach the store wins.
StatusUpdate_FirstWriterWins(w) ==
  /\ pc[w] = "status_update"
  /\ LET r == update_applicant(table, arg_id[w], status[w]) IN
       /\ table' = [u \in Uuids |->
                      IF table[u].verification_status = NoStatus
                        THEN r.table[u] ELSE table[u]]
       /\ Respond(w, Response("status", 200, "none", arg_id[w], status[w]))
  /\ UNCHANGED << provider, calls >>
  /\ UNCHANGED << schema, signer_vars >>

\* update_applicant(applicant_id, verification_status=status), then the
\* view's 200 with the status.
StatusUpdate(w) ==
  /\ pc[w] = "status_update"
  /\ LET r == update_applicant(table, arg_id[w], status[w]) IN
       /\ table' = r.table
       /\ Respond(w, Response("status", 200, "none", arg_id[w], status[w]))
  /\ UNCHANGED << provider, calls >>
  /\ UNCHANGED << schema, signer_vars >>

\* The response is delivered and the worker is free for its next request.
Return(w) ==
  /\ pc[w] = "done"
  /\ pc' = [pc EXCEPT ![w] = "idle"]
  /\ resp' = [resp EXCEPT ![w] = NoResponse]
  /\ calls' = [calls EXCEPT ![w] = 0]
  /\ UNCHANGED << table, provider, locals >>
  /\ UNCHANGED << schema, signer_vars >>

\* Requests served concurrently: any worker takes its next step.
Next ==
  \/ \E w \in Workers : \E payload \in Payloads : CreateSelect(w, payload)
  \/ \E w \in Workers : CreateInsert(w)
  \/ \E w \in Workers : CreateRetry(w)
  \/ \E w \in Workers : \E id \in Pids : CreateCallOk(w, id)
  \/ \E w \in Workers : CreateCallFail(w)
  \/ \E w \in Workers : CreateLink(w)
  \/ \E w \in Workers : \E aid \in Pids \cup {NoPid} : DocumentStart(w, aid)
  \/ \E w \in Workers : DocumentCallOk(w)
  \/ \E w \in Workers : DocumentCallFail(w)
  \/ \E w \in Workers : \E aid \in Pids : StatusStart(w, aid)
  \/ \E w \in Workers : \E s \in Statuses : StatusCallOk(w, s)
  \/ \E w \in Workers : StatusCallFail(w)
  \/ \E w \in Workers : StatusUpdate(w)
  \/ \E w \in Workers : Return(w)

Spec == Init /\ [][Next]_vars

\* Requests served one after the other: a worker moves only while every
\* other worker is idle.
Quiet(w) == \A v \in Workers \ {w} : pc[v] = "idle"

NextSeq ==
  \/ \E w \in Workers : \E payload \in Payloads :
       Quiet(w) /\ CreateSelect(w, payload)
  \/ \E w \in Workers : Quiet(w) /\ CreateInsert(w)
  \/ \E w \in Workers : Quiet(w) /\ CreateRetry(w)
  \/ \E w \in Workers : \E id \in Pids : Quiet(w) /\ CreateCallOk(w, id)
  \/ \E w \in Workers : Quiet(w) /\ CreateCallFail(w)
  \/ \E w \in Workers : Quiet(w) /\ CreateLink(w)
  \/ \E w \in Workers : \E aid \in Pids \cup {NoPid} :
       Quiet(w) /\ DocumentStart(w, aid)
  \/ \E w \in Workers : Quiet(w) /\ DocumentCallOk(w)
  \/ \E w \in Workers : Quiet(w) /\ DocumentCallFail(w)
  \/ \E w \in Workers : \E aid \in Pids : Quiet(w) /\ StatusStart(w, aid)
  \/ \E w \in Workers : \E s \in Statuses : Quiet(w) /\ StatusCallOk(w, s)
  \/ \E w \in Workers : Quiet(w) /\ StatusCallFail(w)
  \/ \E w \in Workers : Quiet(w) /\ StatusUpdate(w)
  \/ \E w \in Workers : Quiet(w) /\ Return(w)

SeqSpec == Init /\ [][NextSeq]_vars

\* ---------------------------------- the adapter's three outbound requests

\* endpoint = "/resources/applicants"
Endpoint ==
  << "/", "r", "e", "s", "o", "u", "r", "c", "e", "s", "/", "a", "p", "p",
     "l", "i", "c", "a", "n", "t", "s" >>

\* "levelName=basic-kyc-level"
LevelQuery ==
  << "l", "e", "v", "e", "l", "N", "a", "m", "e", "=", "b", "a", "s", "i",
     "c", "-", "k", "y", "c", "-", "l", "e", "v", "e", "l" >>

\* "/info/idDoc"
IdDocSuffix ==
  << "/", "i", "n", "f", "o", "/", "i", "d", "D", "o", "c" >>

\* "/status"
StatusSuffix ==
  << "/", "s", "t", "a", "t", "u", "s" >>

\* json.dumps(payload) of create_applicant, every key and value kept as one
\* token of the text.
json_dumps_payload(app) ==
  << "{", "fixedInfo", "{",
     "firstName", app.first_name, "lastName", app.last_name,
     "countryOfBirth", "NGN", "stateOfBirth", "Lagos",
     "country", app.nationality, "nationality", app.nationality,
     "gender", "M", "dob", app.dob, "}",
     "externalUserId" >> \o str(app.uuid)
    \o << "email", app.email, "phone", app.phone,
          "lang", "en", "type", "individual", "}" >>

\* The multipart body requests encodes from data=payload and files=files,
\* every part kept as one token of the bytes.
multipart_body(document) ==
  << "metadata", "idDocSubType", document.doc_subtype,
     "idDocType", document.doc_type, "country", "NGA",
     "content", "document_file", document.document_file >>

\* Validated DocumentSerializer inputs turned into domain Documents.
DocSubtypes == {"FRONT_SIDE", "BACK_SIDE"}

Documents ==
  { [applicant_id |-> p, doc_type |-> "PASSPORT", doc_subtype |-> t,
     document_file |-> "scan"] : p \in Pids, t \in DocSubtypes }

\* requests.Request('POST', url, data=json.dumps(payload), headers=...)
create_applicant_request(app) ==
  [method |-> << "P", "O", "S", "T" >>,
   path |-> Endpoint,
   query |-> LevelQuery,
   body |-> [kind |-> "str", data |-> json_dumps_payload(app)]]

\* requests.Request('POST', url, data=payload, files=files, headers=...)
add_document_request(document) ==
  [method |-> << "P", "O", "S", "T" >>,
   path |-> Endpoint \o << "/" >> \o str(document.applicant_id)
              \o IdDocSuffix,
   query |-> << >>,
   body |-> [kind |-> "bytes", data |-> multipart_body(document)]]

\* requests.Request('GET', url)
get_verification_status_request(applicant_id) ==
  [method |-> << "G", "E", "T" >>,
   path |-> Endpoint \o << "/" >> \o str(applicant_id) \o StatusSuffix,
   query |-> << >>,
   body |-> [kind |-> "none", data |-> << >>]]

\* ------------------------------------------------------- the signer alone

\* The adapter is constructed with a secret; a request is waiting to be
\* signed.
SignInit ==
  /\ schema = "models"
  /\ table = [u \in Uuids |-> NoRow]
  /\ provider = [p \in Pids |-> NoUuid]
  /\ pc = [w \in Workers |-> "idle"]
  /\ applicant = [w \in Workers |-> NoApplicant]
  /\ applicant_db = [w \in Workers |-> NoRow]
  /\ created = [w \in Workers |-> FALSE]
  /\ arg_id = [w \in Workers |-> NoPid]
  /\ status = [w \in Workers |-> NoStatus]
  /\ calls = [w \in Workers |-> 0]
  /\ resp = [w \in Workers |-> NoResponse]
  /\ clock \in 0 .. MaxNow
  /\ secret_key \in Secrets
  /\ request \in Requests
  /\ prepared = NoPrepared
  /\ sent = NoPrepared

\* An adapter that keeps the headers it computed last and puts them on the
\* next request it builds.
Build_KeepsHeaders(req) ==
  /\ request' = req
  /\ prepared' = IF sent = NoPrepared
                   THEN NoPrepared
                   ELSE [sent EXCEPT !.method = upper(req.method),
                                     !.path_url = path_url(req),
                                     !.body = req.body]
  /\ sent' = NoPrepared
  /\ UNCHANGED << clock, secret_key, workflow_vars >>

\* An adapter method builds its requests.Request: nothing is signed and
\* nothing is on the wire for it yet.
Build(req) ==
  /\ request' = req
  /\ prepared' = NoPrepared
  /\ sent' = NoPrepared
  /\ UNCHANGED << clock, secret_key, workflow_vars >>

\* create_applicant builds its POST.
BuildCreateApplicant(app) == Build(create_applicant_request(app))

\* add_document builds its multipart POST.
BuildAddDocument(document) == Build(add_document_request(document))

\* get_verification_status builds its GET.
BuildGetVerificationStatus(applicant_id) ==
  Build(get_verification_status_request(applicant_id))

\* signed_request = self._get_headers(request)
Sign ==
  /\ prepared' = get_headers(request, clock, secret_key)
  /\ UNCHANGED << clock, secret_key, request, sent, workflow_vars >>

\* response = session.send(signed_request, timeout=self.TIMEOUT)
Send ==
  /\ prepared # NoPrepared
  /\ sent' = prepared
  /\ prepared' = NoPrepared
  /\ UNCHANGED << clock, secret_key, request, workflow_vars >>

\* A second passes.
Tick ==
  /\ clock < MaxNow
  /\ clock' = clock + 1
  /\ UNCHANGED << secret_key, request, prepared, sent, workflow_vars >>

SignNext ==
  \/ \E req \in Requests : Build(req)
  \/ \E u \in Uuids, person \in Persons :
       BuildCreateApplicant(Applicant(person, NoPid, u, NoStatus))
  \/ \E document \in Documents : BuildAddDocument(document)
  \/ \E applicant_id \in Pids : BuildGetVerificationStatus(applicant_id)
  \/ Sign
  \/ Send
  \/ Tick

SignSpec == SignInit /\ [][SignNext]_vars

\* ---------------------------------------------------------------- claims

\* The row that holds provider id p, if any.
Holders(tbl, p) ==
  { u \in Uuids : tbl[u] # NoRow /\ tbl[u].applicant_id = p }

\* C1: a row's provider id, once set, is never replaced by another value,
\* whatever request runs afterwards.
C1_ProviderIdSetAtMostOnce ==
  [][\A u \in Uuids :
       (table[u] # NoRow /\ table[u].applicant_id # NoPid)
         => table'[u].applicant_id = table[u].applicant_id]_vars

\* C2: when the provider's creation call fails, the request fails, nothing
\* in the table changes, the row of the submitted person is still there,
\* and a row this request inserted has no provider id and no status.
C2_FailedCreateKeepsRegisteredRow ==
  [][\A w \in Workers :
       (pc[w] = "create_call" /\ pc'[w] = "done")
         => /\ resp'[w].code = 500
            /\ resp'[w].exc = "HTTPError"
            /\ resp'[w].applicant_id = NoPid
            /\ table' = table
            /\ provider' = provider
            /\ table'[applicant_db[w].uuid] # NoRow
            /\ PersonOf(table'[applicant_db[w].uuid]) = PersonOf(applicant[w])
            /\ created[w] =>
                 /\ table'[applicant_db[w].uuid].applicant_id = NoPid
                 /\ table'[applicant_db[w].uuid].verification_status
                      = NoStatus]_vars

\* A creation request has failed at the provider and the row its process
\* inserted is in the table without a provider id.
C2_Witness ==
  \E w \in Workers :
    /\ pc[w] = "done"
    /\ resp[w].op = "create"
    /\ resp[w].exc = "HTTPError"
    /\ table[default_uuid(w)] # NoRow
    /\ table[default_uuid(w)].applicant_id = NoPid
    /\ \A p \in Pids : provider[p] = NoUuid

\* C3: no two rows of the table carry the same six personal fields.
C3_OneRowPerNaturalKey ==
  \A person \in Persons : Cardinality(Matching(table, person)) <= 1

\* A creation request for a person whose row already existed got that row
\* back (created is False), inserted by the other process.
C3_Witness ==
  \E w \in Workers :
    /\ pc[w] = "create_call"
    /\ ~created[w]
    /\ applicant_db[w].uuid # default_uuid(w)
    /\ Matching(table, PersonOf(applicant[w])) = {applicant_db[w].uuid}

\* C4: a document request whose applicant id the provider never issued ends
\* with PreconditionError and without an outbound call.
C4_DocumentNeedsProviderId ==
  \A w \in Workers :
    (/\ pc[w] = "done"
     /\ resp[w].op = "add_document"
     /\ resp[w].applicant_id # NoPid
     /\ provider[resp[w].applicant_id] = NoUuid)
      => (resp[w].exc = "PreconditionError" /\ calls[w] = 0)

\* C5: a status request whose applicant id no row holds when the table is
\* updated ends with NotFoundError.
C5_StatusOfUnknownIdIsNotFound ==
  [][\A w \in Workers :
       (/\ pc[w] = "status_update"
        /\ pc'[w] = "done"
        /\ Holders(table, arg_id[w]) = {})
         => resp'[w].exc = "NotFoundError"]_vars

\* C6: the table update of a status request leaves every row that holds the
\* request's applicant id with the status the provider returned, and that
\* status is what the request answers.
C6_RefreshStoresReturnedStatus ==
  [][\A w \in Workers :
       (pc[w] = "status_update" /\ pc'[w] = "done")
         => /\ \A u \in Holders(table, arg_id[w]) :
                 /\ table'[u].verification_status = status[w]
                 /\ table'[u].applicant_id = arg_id[w]
            /\ resp'[w].code = 200
            /\ resp'[w].verification_status = status[w]]_vars

\* A status request has answered 200 with the status the row of its
\* applicant now holds.
C6_Witness ==
  \E w \in Workers : \E u \in Uuids :
    /\ pc[w] = "done"
    /\ resp[w].op = "status"
    /\ resp[w].code = 200
    /\ resp[w].verification_status = "RED"
    /\ u \in Holders(table, resp[w].applicant_id)
    /\ table[u].verification_status = resp[w].verification_status

\* C7: a creation request that answers 201 leaves a row with the submitted
\* personal fields whose provider id is the id the provider issued for that
\* row, and answers that id.
C7_CreatedIdIsPersistedAndReported ==
  [][\A w \in Workers :
       (pc[w] = "create_save" /\ pc'[w] = "done" /\ resp'[w].code = 201)
         => \E u \in Uuids :
              /\ table'[u] # NoRow
              /\ PersonOf(table'[u]) = PersonOf(applicant[w])
              /\ resp'[w].applicant_id # NoPid
              /\ provider[resp'[w].applicant_id] = u
              /\ table'[u].applicant_id = resp'[w].applicant_id]_vars

\* A creation request has answered 201 with the id the row now holds.
C7_Witness ==
  \E w \in Workers : \E u \in Uuids :
    /\ pc[w] = "done"
    /\ resp[w].op = "create"
    /\ resp[w].code = 201
    /\ table[u] # NoRow
    /\ table[u].applicant_id = resp[w].applicant_id
    /\ provider[resp[w].applicant_id] = u

\* C8: the provider holds at most one applicant per local row.
C8_AtMostOneProviderRecord ==
  \A u \in Uuids : Cardinality({ p \in Pids : provider[p] = u }) <= 1

\* C9: a row never loses its provider id and never loses its verification
\* status.
C9_NoBackwardTransition ==
  [][\A u \in Uuids :
       /\ table[u] # NoRow => table'[u] # NoRow
       /\ (table[u] # NoRow /\ table[u].applicant_id # NoPid)
            => table'[u].applicant_id # NoPid
       /\ (table[u] # NoRow /\ table[u].verification_status # NoStatus)
            => table'[u].verification_status # NoStatus]_vars

\* The number a sequence of decimal digits denotes.
RECURSIVE DecimalValue(_)
DecimalValue(t) ==
  IF t = << >> THEN 0
  ELSE 10 * DecimalValue(SubSeq(t, 1, Len(t) - 1))
         + (CHOOSE d \in 0 .. 9 : Digits[d + 1] = t[Len(t)])

\* t is the decimal numeral of n: digits only, no leading zero.
IsDecimalOf(t, n) ==
  /\ Len(t) >= 1
  /\ \A i \in 1 .. Len(t) : \E d \in 0 .. 9 : Digits[d + 1] = t[i]
  /\ Len(t) > 1 => t[1] # "0"
  /\ DecimalValue(t) = n

\* M is m in capitals.
IsUpperCaseOf(M, m) ==
  /\ Len(M) = Len(m)
  /\ \A i \in 1 .. Len(m) :
       /\ M[i] \in {"G", "E", "T", "P", "O", "S"}
       /\ << m[i], M[i] >> \in
            { << "g", "G" >>, << "e", "E" >>, << "t", "T" >>,
              << "p", "P" >>, << "o", "O" >>, << "s", "S" >>,
              << "G", "G" >>, << "E", "E" >>, << "T", "T" >>,
              << "P", "P" >>, << "O", "O" >>, << "S", "S" >> }

\* The request path with its query string.
PathWithQuery(req) ==
  IF req.query = << >> THEN (IF req.path = << >> THEN << "/" >> ELSE req.path)
  ELSE (IF req.path = << >> THEN << "/" >> ELSE req.path)
         \o << "?" >> \o req.query

\* C10: the signature of a signed request is the lowercase-hex HMAC-SHA-256
\* under the adapter's secret of a message that splits, with nothing in
\* between or around, into the decimal numeral of a clock reading, the
\* method in capitals, the path with its query string, and the raw body
\* (nothing for a request without a body).
C10_SignatureOverCanonicalPayload ==
  prepared # NoPrepared =>
    LET sig == prepared.X_App_Access_Sig
        n1 == Len(prepared.X_App_Access_Ts)
        n2 == n1 + Len(request.method)
        n3 == n2 + Len(PathWithQuery(request))
    IN /\ sig.digestmod = "sha256"
       /\ sig.encoding = "hex-lowercase"
       /\ sig.key = secret_key
       /\ Len(sig.msg) >= n3
       /\ SubSeq(sig.msg, 1, n1) = prepared.X_App_Access_Ts
       /\ \E n \in 0 .. clock : IsDecimalOf(SubSeq(sig.msg, 1, n1), n)
       /\ IsUpperCaseOf(SubSeq(sig.msg, n1 + 1, n2), request.method)
       /\ SubSeq(sig.msg, n2 + 1, n3) = PathWithQuery(request)
       /\ SubSeq(sig.msg, n3 + 1, Len(sig.msg))
            = (IF request.body.kind = "none" THEN << >>
                                             ELSE request.body.data)

\* A lowercase-method request with a query string and a body was signed at
\* a two-digit second.
C10_Witness ==
  /\ prepared # NoPrepared
  /\ request.method = << "p", "o", "s", "t" >>
  /\ request.query # << >>
  /\ request.body.kind = "str"
  /\ Len(prepared.X_App_Access_Ts) = 2
  /\ prepared.X_App_Access_Sig.msg =
       << "1", "0", "P", "O", "S", "T", "/", "a", "?", "l", "=", "b",
          "{", "}" >>

\* C11: when a request is signed, the X-App-Access-Ts header is the decimal
\* numeral of the clock as it reads at that moment, and the signed message
\* is that same numeral followed by the rest of the payload.
C11_HeaderTimestampIsSignedTimestamp ==
  [][(prepared' # prepared /\ prepared' # NoPrepared)
       => /\ prepared'.X_App_Access_Ts = str(clock)
          /\ IsDecimalOf(prepared'.X_App_Access_Ts, clock)
          /\ prepared'.X_App_Access_Sig.msg =
               prepared'.X_App_Access_Ts
                 \o SubSeq(prepared'.X_App_Access_Sig.msg,
                           Len(prepared'.X_App_Access_Ts) + 1,
                           Len(prepared'.X_App_Access_Sig.msg))
          /\ IsUpperCaseOf(
               SubSeq(prepared'.X_App_Access_Sig.msg,
                      Len(prepared'.X_App_Access_Ts) + 1,
                      Len(prepared'.X_App_Access_Ts) + Len(request.method)),
               request.method)]_vars

\* A request built at an earlier second has just been signed: its header
\* carries the present clock reading, two digits long.
C11_Witness ==
  /\ prepared # NoPrepared
  /\ clock = MaxNow
  /\ prepared.X_App_Access_Ts = str(clock)
  /\ Len(prepared.X_App_Access_Ts) = 2
  /\ SubSeq(prepared.X_App_Access_Sig.msg, 1, 2) = prepared.X_App_Access_Ts

\* C12: whatever is handed to session.send carries the token, a timestamp
\* and a signature over that very request's method, path and body, and it is
\* the request the adapter method built last: each of create_applicant,
\* add_document and get_verification_status sends what its own call to the
\* signer produced.
C12_EverySentRequestCarriesItsOwnSignature ==
  sent # NoPrepared
    => /\ sent.method = upper(request.method)
       /\ sent.path_url = PathWithQuery(request)
       /\ sent.body = request.body
       /\ sent.X_App_Token = API_TOKEN
       /\ \E now \in 0 .. clock : IsDecimalOf(sent.X_App_Access_Ts, now)
       /\ sent.X_App_Access_Sig.key = secret_key
       /\ sent.X_App_Access_Sig.msg =
            sent.X_App_Access_Ts \o sent.method \o sent.path_url
              \o sent.body.data

\* The signed GET of get_verification_status for an applicant is on the
\* wire.
C12_Witness ==
  /\ sent # NoPrepared
  /\ sent.method = << "G", "E", "T" >>
  /\ request = get_verification_status_request(NumPids)
  /\ Len(sent.X_App_Access_Sig.msg) > Len(sent.path_url)

\* C13: a request never makes more than one provider call; a provider call
\* that raises ends the request at once with a 500 carrying that error, and
\* so does a save that raises, before any provider call; a request answers
\* 2xx only after exactly one provider call that the provider accepted, and
\* a response that carries an error is never a 2xx.
C13_ErrorsPropagateWithoutRetry ==
  [][\A w \in Workers :
       /\ calls'[w] <= 1
       /\ (CreateCallFail(w) \/ DocumentCallFail(w) \/ StatusCallFail(w))
            => /\ pc'[w] = "done"
               /\ resp'[w].code = 500
               /\ resp'[w].exc = "HTTPError"
               /\ calls'[w] = 1
       /\ \A person \in Persons :
            ( /\ CreateSelect(w, person)
              /\ objects_get(table, person).exc = "MultipleObjectsReturned" )
              => /\ pc'[w] = "done"
                 /\ resp'[w].code = 500
                 /\ resp'[w].exc = "MultipleObjectsReturned"
                 /\ calls'[w] = 0
       /\ ( /\ CreateRetry(w)
            /\ objects_get(table, PersonOf(applicant[w])).exc # "none" )
            => /\ pc'[w] = "done"
               /\ resp'[w].code = 500
               /\ resp'[w].exc \in {"IntegrityError", "MultipleObjectsReturned"}
               /\ calls'[w] = 0
       /\ pc'[w] = "done"
            => /\ resp'[w].exc # "none" => resp'[w].code \notin {200, 201}
               /\ resp'[w].code \in {200, 201}
                    => /\ calls'[w] = 1
                       /\ provider'[resp'[w].applicant_id] # NoUuid
               /\ (resp'[w].op = "status" /\ resp'[w].code = 200)
                    => resp'[w].verification_status \in Statuses]_vars

\* A document upload whose provider call raised has ended in a 500 after
\* its one call.
C13_Witness ==
  \E w \in Workers :
    /\ pc[w] = "done"
    /\ resp[w].op = "add_document"
    /\ resp[w].code = 500
    /\ resp[w].exc = "HTTPError"
    /\ calls[w] = 1

\* C14: when a refresh reaches its store update while another refresh of the
\* same applicant has already finished, the record afterwards holds the
\* status of the refresh that finishes now, whatever the order in which the
\* two provider calls were answered and whatever the earlier one wrote.
C14_LastRefreshWins ==
  [][\A w \in Workers : \A v \in Workers \ {w} :
       ( /\ pc[w] = "status_update"
         /\ pc'[w] = "done"
         /\ pc[v] = "done"
         /\ resp[v].op = "status"
         /\ resp[v].code = 200
         /\ resp[v].applicant_id = arg_id[w] )
       => /\ resp'[w].verification_status = status[w]
          /\ \A u \in Holders(table', arg_id[w]) :
               table'[u].verification_status = status[w]
          /\ \A u \in Uuids \ Holders(table', arg_id[w]) :
               table'[u] = table[u]]_vars

\* Two refreshes of one linked applicant have both finished with different
\* statuses, and the record holds one of the two.
C14_Witness ==
  \E w \in Workers : \E v \in Workers \ {w} :
    /\ pc[w] = "done" /\ pc[v] = "done"
    /\ resp[w].op = "status" /\ resp[v].op = "status"
    /\ resp[w].code = 200 /\ resp[v].code = 200
    /\ resp[w].applicant_id = resp[v].applicant_id
    /\ resp[w].verification_status # resp[v].verification_status
    /\ \E u \in Holders(table, resp[w].applicant_id) :
         table[u].verification_status = resp[w].verification_status

\* C15: a step of one request leaves the entity, the row instance, the
\* arguments, the fetched status and the response of every other request as
\* they were; the id a create request puts on its entity is the one the
\* provider issued in that request's own call for that request's own row,
\* and the id its 201 reports is the one on its own entity.
C15_RequestsShareNoInstance ==
  [][\A w \in Workers :
       pc'[w] # pc[w]
         => /\ \A v \in Workers \ {w} :
                 /\ applicant'[v] = applicant[v]
                 /\ applicant_db'[v] = applicant_db[v]
                 /\ created'[v] = created[v]
                 /\ arg_id'[v] = arg_id[v]
                 /\ status'[v] = status[v]
                 /\ resp'[v] = resp[v]
                 /\ calls'[v] = calls[v]
            /\ (pc[w] # "create_call" /\ pc'[w] = "create_call")
                 => /\ applicant_db'[w] = table'[applicant_db'[w].uuid]
                    /\ PersonOf(applicant_db'[w]) = PersonOf(applicant'[w])
            /\ (pc[w] = "create_call" /\ pc'[w] = "create_save")
                 => /\ applicant'[w].applicant_id # NoPid
                    /\ provider[applicant'[w].applicant_id] = NoUuid
                    /\ provider'[applicant'[w].applicant_id]
                         = applicant_db[w].uuid
                    /\ applicant_db'[w].applicant_id
                         = applicant'[w].applicant_id
            /\ (pc[w] = "create_save" /\ resp'[w].code = 201)
                 => resp'[w].applicant_id = applicant[w].applicant_id]_vars

\* Two create requests are in flight at once, each holding the id of its own
\* provider call.
C15_Witness ==
  \E w \in Workers : \E v \in Workers \ {w} :
    /\ pc[w] = "create_save" /\ pc[v] = "create_save"
    /\ applicant[w].applicant_id # NoPid
    /\ applicant[v].applicant_id # NoPid
    /\ applicant[w].applicant_id # applicant[v].applicant_id
    /\ PersonOf(applicant[w]) = PersonOf(applicant[v])

\* C16: no step of a document upload changes the table, whether the upload
\* is rejected, accepted or fails; no step in which a provider call is made
\* changes the table; the table changes only in the save of a create
\* request, in the save of the provider id, or in the update of a refresh.
C16_OnlyCreateAndRefreshWrite ==
  [][/\ \A w \in Workers :
          ( /\ pc'[w] # pc[w]
            /\ \/ pc[w] = "doc_call"
               \/ pc'[w] = "doc_call"
               \/ (pc[w] = "idle" /\ resp'[w].op = "add_document") )
          => table' = table
     /\ \A w \in Workers : calls'[w] > calls[w] => table' = table
     /\ table' # table
          => \E w \in Workers :
               \/ pc[w] = "create_insert" /\ pc'[w] = "create_call"
               \/ pc[w] = "create_save" /\ pc'[w] = "done"
               \/ pc[w] = "status_update" /\ pc'[w] = "done"]_vars

\* A document upload for a linked applicant has been accepted, and the
\* applicant's record still has no status.
C16_Witness ==
  \E w \in Workers :
    /\ pc[w] = "done"
    /\ resp[w].op = "add_document"
    /\ resp[w].code = 200
    /\ \E u \in Holders(table, resp[w].applicant_id) :
         table[u].verification_status = NoStatus

\* C17: a create request that is about to call the provider has made no call
\* yet and its applicant is stored; a create request that is about to
\* persist the provider id has made its one call and the provider issued
\* that id for its row; a create request whose save raised has made no call;
\* and every provider id found in the table was issued by the provider for
\* the row that holds it.
C17_SaveThenCallThenLink ==
  /\ \A w \in Workers :
       /\ pc[w] = "create_call"
            => /\ calls[w] = 0
               /\ applicant_db[w].uuid # NoUuid
               /\ PersonOf(table[applicant_db[w].uuid])
                    = PersonOf(applicant[w])
               /\ applicant[w].applicant_id = NoPid
       /\ pc[w] = "create_save"
            => /\ calls[w] = 1
               /\ PersonOf(table[applicant_db[w].uuid])
                    = PersonOf(applicant[w])
               /\ applicant_db[w].applicant_id # NoPid
               /\ provider[applicant_db[w].applicant_id]
                    = applicant_db[w].uuid
       /\ ( /\ pc[w] = "done"
            /\ resp[w].op = "create"
            /\ resp[w].exc \in {"IntegrityError", "MultipleObjectsReturned"} )
            => calls[w] = 0
       /\ (pc[w] = "done" /\ resp[w].code = 201) => calls[w] = 1
  /\ \A u \in Uuids :
       (table[u] # NoRow /\ table[u].applicant_id # NoPid)
         => provider[table[u].applicant_id] = u

\* A create request has stored its applicant and has not called the
\* provider yet: the row is there without a provider id.
C17_Witness ==
  \E w \in Workers :
    /\ pc[w] = "create_call"
    /\ created[w]
    /\ calls[w] = 0
    /\ table[applicant_db[w].uuid].applicant_id = NoPid
    /\ \A p \in Pids : provider[p] = NoUuid

\* C18: a create request for a person not yet in the table stores a new
\* record for that person under an internal identifier no other record has,
\* so the request gets past its save; and the identifier of a stored record
\* never changes.
C18_NewApplicantGetsOwnIdentifier ==
  [][/\ \A w \in Workers :
          (CreateInsert(w) /\ Matching(table, PersonOf(applicant[w])) = {})
            => /\ pc'[w] = "create_call"
               /\ \E u \in Uuids :
                    /\ table[u] = NoRow
                    /\ table'[u] # NoRow
                    /\ PersonOf(table'[u]) = PersonOf(applicant[w])
                    /\ table'[u].uuid = u
               /\ \A u \in Uuids : table[u] # NoRow => table'[u] = table[u]
     /\ \A u \in Uuids :
          table[u] # NoRow => (table'[u] # NoRow /\ table'[u].uuid = u)]_vars

\* C19: a refresh whose provider call raises ends in that step with the
\* error, and the table after the step is the table before it, field by
\* field.
C19_FailedRefreshLeavesStoreAlone ==
  [][\A w \in Workers :
       (pc[w] = "status_call" /\ pc'[w] = "done")
         => /\ resp'[w].op = "status"
            /\ resp'[w].code = 500
            /\ resp'[w].exc = "HTTPError"
            /\ \A u \in Uuids : table'[u] = table[u]]_vars

\* A refresh of a linked applicant whose record holds a status has failed at
\* the provider, and the record still holds a status.
C19_Witness ==
  \E w \in Workers :
    /\ pc[w] = "done"
    /\ resp[w].op = "status"
    /\ resp[w].code = 500
    /\ \E u \in Holders(table, resp[w].applicant_id) :
         table[u].verification_status \in Statuses

\* C20: for the request and secret at hand, signing at any other second
\* gives a different message to sign and a different signature than signing
\* now, and signing now the same request with any body of other bytes gives
\* a different message and a different signature.
C20_TimestampAndBodyChangeSignature ==
  LET here == get_headers(request, clock, secret_key) IN
    /\ \A now \in 0 .. MaxNow :
         now # clock
           => /\ data_to_sign(request, now) # data_to_sign(request, clock)
              /\ get_headers(request, now, secret_key).X_App_Access_Sig
                   # here.X_App_Access_Sig
    /\ \A b \in Bodies :
         LET other == [request EXCEPT !.body = b] IN
           body_bytes(other) # body_bytes(request)
             => /\ data_to_sign(other, clock) # data_to_sign(request, clock)
                /\ get_headers(other, clock, secret_key).X_App_Access_Sig
                     # here.X_App_Access_Sig

\* A request with a body was signed at an earlier second: signed again now
\* it would get another signature, and so would the same request without
\* its body.
C20_Witness ==
  /\ prepared # NoPrepared
  /\ request.body.kind = "str"
  /\ prepared.X_App_Access_Ts # str(clock)
  /\ prepared.X_App_Access_Sig
       # get_headers(request, clock, secret_key).X_App_Access_Sig
  /\ get_headers([request EXCEPT !.body = [kind |-> "none", data |-> << >>]],
                 clock, secret_key).X_App_Access_Sig
       # get_headers(request, clock, secret_key).X_App_Access_Sig

====
